---- MODULE Spec2Model ----
(***************************************************************************)
(* Model of the infant-health research agent: the source-reliability      *)
(* scorer (backend/provenance_validator.py), the citation validator        *)
(* (backend/validator.py), the scoring-synthesis-validation pipeline       *)
(* (backend/main_agent.py, backend/synthesizer.py) and the shared HTTP     *)
(* client (backend/common_http.py).  Every behaviour runs one of these     *)
(* components; the others stay idle.                                       *)
(*                                                                         *)
(* Strings are sequences of tokens (a token is a run of characters that    *)
(* the code never splits); Python values carry their type tag, so that     *)
(* truthiness, int() and attribute access behave as they do in Python.     *)
(***************************************************************************)
EXTENDS Integers, Sequences, FiniteSets, TLC

VARIABLES
    vtext,      \* validate: summary_block
    vitems,     \* validate: items
    vhorizon,   \* validate: time_horizon_years
    vnow,       \* validate: datetime.utcnow().year
    vpc,        \* validate: "input" before the call, "done" after it
    vreport,    \* validate: what the call produced (a report or an exception)
    sitem,      \* reliability_score: item
    spage,      \* reliability_score: what fetching item's url answers
    ssearch,    \* reliability_score: what the corroboration search answers
    spc,        \* reliability_score: "input" before the call, "done" after it
    sresult,    \* reliability_score: what the call produced
    ssearch2,   \* reliability_score, called again: what the search answers now
    sresult2,   \* reliability_score, called again: what the call produced
    pheap,      \* pipeline: the item dicts in memory, by object identity
    pitems,     \* pipeline: items, the list handed to _enrich_and_summarize
    pworld,     \* pipeline: what page fetches and searches answer
    pscored,    \* pipeline: items_scored
    psources,   \* pipeline: the numbered sources synthesize writes
    ptext,      \* pipeline: result["summary_block"]
    preport,    \* pipeline: what validate produced
    ppc,        \* pipeline: the statement _enrich_and_summarize is at
    gurl,       \* safe_get: url
    gallow,     \* safe_get: allow_non_200
    grobots,    \* safe_get: what robots.txt of the host says
    ghead,      \* safe_get: what the server answers to HEAD
    gget,       \* safe_get: what the server answers to GET
    gpc,        \* safe_get: "input" before the call, "done" after it
    gresult,    \* safe_get: what the call produced and the requests it sent
    SESSION,        \* get_http_session: _SESSION, 0 for None or a session object
    SESSION_LOCK,   \* get_http_session: the thread holding _SESSION_LOCK, 0 for none
    csessions,      \* get_http_session: the session objects created so far
    cpc,            \* get_http_session: the line each thread is at
    cret,           \* get_http_session: what each thread got back, as it was then
    rnow,           \* rate limit: time.time(), in seconds
    rurl,           \* rate limit: the url each thread calls safe_get with
    rpc,            \* rate limit: the line each thread is at
    rwake,          \* rate limit: when the sleep of each thread ends
    rsent,          \* rate limit: when each thread sent its HEAD and its GET
    HOST_LOCKS,     \* rate limit: the thread holding the lock of each host, 0 for none
    LAST_HIT_TS,    \* rate limit: _LAST_HIT_TS
    bneed,          \* run_pipeline: route.need_supporting_evidence
    bworld,         \* run_pipeline: what every search answers
    bpc,            \* run_pipeline: "input" before the branch, "done" after it
    bresult         \* run_pipeline: the list handed on, or the exception raised

vvars == <<vtext, vitems, vhorizon, vnow, vpc, vreport>>
svars == <<sitem, spage, ssearch, spc, sresult, ssearch2, sresult2>>
pvars == <<pheap, pitems, pworld, pscored, psources, ptext, preport, ppc>>
gvars == <<gurl, gallow, grobots, ghead, gget, gpc, gresult>>
cvars == <<SESSION, SESSION_LOCK, csessions, cpc, cret>>
rvars == <<rnow, rurl, rpc, rwake, rsent, HOST_LOCKS, LAST_HIT_TS>>
bvars == <<bneed, bworld, bpc, bresult>>
vars == <<vvars, svars, pvars, gvars, cvars, rvars, bvars>>

----------------------------------------------------------------------------
(* Bounds of the model *)

MaxPieces == 2      \* text = at most this many pieces
MaxItems == 2       \* item list = at most this many items
MaxBlocks == 2      \* a page holds at most this many JSON-LD script blocks
MaxLinks == 5       \* a page holds at most this many <a> elements

----------------------------------------------------------------------------
(* Python values *)

PyNone == [t |-> "None"]
PyStr(s) == [t |-> "str", v |-> s]
PyInt(n) == [t |-> "int", v |-> n]

PyList(xs) == [t |-> "list", v |-> xs]
PyDict(f) == [t |-> "dict", v |-> f]

\* bool(x)
Truthy(x) ==
    CASE x.t = "None" -> FALSE
      [] x.t = "str"  -> x.v # <<>>
      [] x.t = "int"  -> x.v # 0
      [] x.t = "list" -> x.v # <<>>
      [] x.t = "dict" -> DOMAIN x.v # {}
      [] OTHER        -> TRUE

\* d.get(k, default) on a dict
Get(d, k, default) == IF k \in DOMAIN d.v THEN d.v[k] ELSE default

\* x or y
PyOr(x, y) == IF Truthy(x) THEN x ELSE y

Digits == {"0", "1", "2", "3", "4", "5", "6", "7", "8", "9"}

DigitVal(c) ==
    CASE c = "0" -> 0 [] c = "1" -> 1 [] c = "2" -> 2 [] c = "3" -> 3
      [] c = "4" -> 4 [] c = "5" -> 5 [] c = "6" -> 6 [] c = "7" -> 7
      [] c = "8" -> 8 [] c = "9" -> 9

RECURSIVE DecimalValue(_)
\* int("0012") = 12: the value of a non-empty run of digits
DecimalValue(ds) ==
    IF ds = <<>> THEN 0
    ELSE 10 * DecimalValue(SubSeq(ds, 1, Len(ds) - 1)) + DigitVal(ds[Len(ds)])

AllDigits(s) == s # <<>> /\ \A i \in 1..Len(s) : s[i] \in Digits

\* int(x): [ok, v]; a string that is not a number raises ValueError,
\* None raises TypeError
PyIntOf(x) ==
    CASE x.t = "int" -> [ok |-> TRUE, v |-> x.v]
      [] x.t = "str" /\ AllDigits(x.v) -> [ok |-> TRUE, v |-> DecimalValue(x.v)]
      [] x.t = "str" -> [ok |-> FALSE, exc |-> "ValueError"]
      [] OTHER -> [ok |-> FALSE, exc |-> "TypeError"]

\* str.lower() on tokens: the upper-case tokens used in the inputs
Lower(tok) ==
    CASE tok = "WHO" -> "who"
      [] tok = "WWW" -> "www"
      [] tok = "BIORXIV" -> "biorxiv"
      [] tok = "ORG" -> "org"
      [] tok = "GOV" -> "gov"
      [] tok = "INT" -> "int"
      [] tok = "HTTPS" -> "https"
      [] OTHER -> tok

LowerStr(s) == [i \in 1..Len(s) |-> Lower(s[i])]

\* needle in hay (substring test)
Contains(hay, needle) ==
    \E i \in 1..(Len(hay) - Len(needle) + 1) :
        SubSeq(hay, i, i + Len(needle) - 1) = needle

RECURSIVE SortedSeq(_)
\* sorted(S) for a finite set of integers
SortedSeq(S) ==
    IF S = {} THEN <<>>
    ELSE LET m == CHOOSE x \in S : \A y \in S : x <= y
         IN <<m>> \o SortedSeq(S \ {m})

RECURSIVE Flatten(_)
Flatten(ss) == IF ss = <<>> THEN <<>> ELSE Head(ss) \o Flatten(Tail(ss))

SeqsUpTo(S, n) == UNION {[1..k -> S] : k \in 0..n}

Range(s) == {s[i] : i \in 1..Len(s)}

\* s.endswith(suf)
EndsWith(s, suf) ==
    Len(s) >= Len(suf) /\ SubSeq(s, Len(s) - Len(suf) + 1, Len(s)) = suf

RECURSIVE Join(_, _)
\* sep.join(parts)
Join(parts, sep) ==
    IF parts = <<>> THEN <<>>
    ELSE IF Len(parts) = 1 THEN parts[1]
    ELSE parts[1] \o sep \o Join(Tail(parts), sep)

----------------------------------------------------------------------------
(* backend/validator.py *)

BANNER == <<"(!)", "Research synthesis for information only", "not medical advice.">>

PREPRINT_HINTS ==
    { <<"medrxiv", ".", "org">>, <<"biorxiv", ".", "org">>, <<"arxiv", ".", "org">>,
      <<"ssrn", ".", "com">>, <<"researchsquare", ".", "com">>, <<"osf", ".", "io">>,
      <<"morressier">> }

RECURSIVE DigitsEnd(_, _)
\* \d+ is greedy: the index just after the run of digits that starts at i
DigitsEnd(s, i) ==
    IF i <= Len(s) /\ s[i] \in Digits THEN DigitsEnd(s, i + 1) ELSE i

RECURSIVE findall_cite(_, _)
\* re.findall(r"\[(\d+)\]", s) from index i: the captured digit runs of the
\* non-overlapping matches, left to right
findall_cite(s, i) ==
    IF i > Len(s) THEN <<>>
    ELSE IF s[i] = "["
         THEN LET j == DigitsEnd(s, i + 1)
              IN IF j > i + 1 /\ j <= Len(s) /\ s[j] = "]"
                 THEN <<SubSeq(s, i + 1, j - 1)>> \o findall_cite(s, j + 1)
                 ELSE findall_cite(s, i + 1)
         ELSE findall_cite(s, i + 1)

citations_in_text(text) ==
    SortedSeq({DecimalValue(n) : n \in Range(findall_cite(text, 1))})

\* as out_of_range_cites, but [0] passes for a valid index
out_of_range_cites_zero_ok(used, max_idx) ==
    SelectSeq(used, LAMBDA i : i < 0 \/ i > max_idx)


out_of_range_cites(used, max_idx) ==
    SelectSeq(used, LAMBDA i : i < 1 \/ i > max_idx)

is_preprint(url) ==
    IF ~Truthy(url) THEN FALSE
    ELSE LET u == LowerStr(url.v)
         IN \E h \in PREPRINT_HINTS : Contains(u, h)

\* as StaleIdx, but an item exactly time_horizon_years old is stale
StaleIdx_inclusive(items, cur, time_horizon_years) ==
    {i \in 1..Len(items) :
        /\ Truthy(items[i].year)
        /\ PyIntOf(items[i].year).ok
        /\ cur - PyIntOf(items[i].year).v >= time_horizon_years}

\* the items whose year passes the filter of the set comprehension of line 46
StaleIdx(items, cur, time_horizon_years) ==
    {i \in 1..Len(items) :
        /\ Truthy(items[i].year)
        /\ PyIntOf(items[i].year).ok
        /\ cur - PyIntOf(items[i].year).v > time_horizon_years}

\* the comprehension calls int(it["year"]) on every item whose year is truthy
YearRaises(items) ==
    \E i \in 1..Len(items) : Truthy(items[i].year) /\ ~PyIntOf(items[i].year).ok

\* lines 38-39: the out-of-range issue
out_of_range_issue(oob, max_idx) ==
    IF oob # <<>>
    THEN <<[kind |-> "out_of_range", list |-> oob, max |-> max_idx]>>
    ELSE <<>>

\* as no_citations_issue, without the guard on an empty item list
no_citations_issue_unguarded(used, max_idx) ==
    IF used = <<>> THEN <<[kind |-> "no_citations"]>> ELSE <<>>

\* lines 41-42: the "no citations" issue
no_citations_issue(used, max_idx) ==
    IF used = <<>> /\ max_idx > 0 THEN <<[kind |-> "no_citations"]>> ELSE <<>>

\* lines 46-48: the recency issue (reached only when no int() raised)
recency_issue(items, cur, time_horizon_years) ==
    LET old_years == SortedSeq({items[i].year.v :
                                   i \in StaleIdx(items, cur, time_horizon_years)})
    IN IF old_years # <<>>
       THEN <<[kind |-> "stale", list |-> old_years, horizon |-> time_horizon_years]>>
       ELSE <<>>

\* lines 51-52: the preprint issue
preprint_issue(items) ==
    IF \E i \in 1..Len(items) : is_preprint(items[i].url)
    THEN <<[kind |-> "preprint"]>>
    ELSE <<>>

\* as ensure_banner, but the banner is appended whether present or not
ensure_banner_always(summary_block) ==
    summary_block \o <<"\n", "\n">> \o BANNER

\* lines 55-57: the banner
ensure_banner(summary_block) ==
    IF ~Contains(summary_block, BANNER)
    THEN summary_block \o <<"\n", "\n">> \o BANNER
    ELSE summary_block

\* as validate, with the preprint check made before the recency check
validate_preprint_first(summary_block, items, time_horizon_years, cur) ==
    LET used == citations_in_text(summary_block)
        max_idx == Len(items)
        oob == out_of_range_cites(used, max_idx)
    IN IF YearRaises(items)
       THEN [raised |-> TRUE, exc |-> "ValueError"]
       ELSE [raised |-> FALSE,
             validated_text |-> ensure_banner(summary_block),
             issues |-> out_of_range_issue(oob, max_idx)
                        \o no_citations_issue(used, max_idx)
                        \o preprint_issue(items)
                        \o recency_issue(items, cur, time_horizon_years)]

\* validate(summary_block, items, time_horizon_years), run in the year cur
validate(summary_block, items, time_horizon_years, cur) ==
    LET used == citations_in_text(summary_block)
        max_idx == Len(items)
        oob == out_of_range_cites(used, max_idx)
    IN IF YearRaises(items)
       THEN [raised |-> TRUE, exc |-> "ValueError"]
       ELSE [raised |-> FALSE,
             validated_text |-> ensure_banner(summary_block),
             issues |-> out_of_range_issue(oob, max_idx)
                        \o no_citations_issue(used, max_idx)
                        \o recency_issue(items, cur, time_horizon_years)
                        \o preprint_issue(items)]

----------------------------------------------------------------------------
(* backend/provenance_validator.py *)

GOOD_DOMAINS ==
    { <<"who", ".", "int">>, <<"cdc", ".", "gov">>, <<"nih", ".", "gov">>,
      <<"unicef", ".", "org">>, <<"bmj", ".", "com">>, <<"nature", ".", "com">>,
      <<"nejm", ".", "org">>, <<"thelancet", ".", "com">>,
      <<"sciencedirect", ".", "com">>, <<"jamanetwork", ".", "com">>,
      <<"springer", ".", "com">>, <<"wiley", ".", "com">>, <<"oup", ".", "com">>,
      <<"tandfonline", ".", "com">>, <<"reuters", ".", "com">>,
      <<"apnews", ".", "com">>, <<"nytimes", ".", "com">>, <<"bbc", ".", "com">>,
      <<"theguardian", ".", "com">>, <<"gov">>, <<"edu">> }

DomainPoints == 20
C2paPoints == 25
AuthorPoints == 15
DatePoints == 10
CorroborationPoints == 15
HighMin == 75
MediumMin == 50

RECURSIVE NetlocEnd(_, _)
\* the netloc runs up to the first "/", "?" or "#"
NetlocEnd(s, i) ==
    IF i <= Len(s) /\ s[i] \notin {"/", "?", "#"} THEN NetlocEnd(s, i + 1) ELSE i

\* urlparse(s).netloc: [ok, v]; only what follows "scheme://" is a netloc, and
\* a netloc with an unbalanced "[" or "]" raises ValueError
urlparse_netloc(s) ==
    IF Len(s) >= 2 /\ s[2] = "://"
    THEN LET n == SubSeq(s, 3, NetlocEnd(s, 3) - 1)
         IN IF ("[" \in Range(n)) # ("]" \in Range(n))
            THEN [ok |-> FALSE, exc |-> "ValueError"]
            ELSE [ok |-> TRUE, v |-> n]
    ELSE [ok |-> TRUE, v |-> <<>>]

\* _domain(url)
domain(url) ==
    IF ~Truthy(url) THEN <<>>
    ELSE LET r == urlparse_netloc(url.v)
         IN IF r.ok THEN LowerStr(r.v) ELSE <<>>

\* d.endswith(".gov") or d.endswith(".edu") or d in GOOD_DOMAINS
is_good_domain(d) ==
    \/ EndsWith(d, <<".", "gov">>)
    \/ EndsWith(d, <<".", "edu">>)
    \/ d \in GOOD_DOMAINS

\* The page text as the features the scorer reads from it:
\*   present  the text is not the empty string
\*   c2pa     which of the three C2PA markers occur in it
\*   ld       the contents of its application/ld+json script blocks, in order
\*   meta_author, meta_date   the content of the fallback meta tags (or None)
\*   hrefs    the href of every <a>, in order
EmptyHtml ==
    [present |-> FALSE, c2pa |-> {}, ld |-> <<>>, meta_author |-> PyNone,
     meta_date |-> PyNone, hrefs |-> <<>>]

\* _fetch_html(url): the text of an ok response, "" for any failure
fetch_html(page) == IF page.ok THEN page.html ELSE EmptyHtml

has_c2pa(html) ==
    \/ "rel=c2pa" \in html.c2pa
    \/ "application/c2pa" \in html.c2pa
    \/ "contentauth" \in html.c2pa

\* json.loads of a script block: a block that does not parse is skipped;
\* a list stands for its elements, anything else for itself
LdObjects(block) ==
    IF block.t = "invalid" THEN <<>>
    ELSE IF block.t = "list" THEN block.v
    ELSE <<block>>

\* str(t) after the " ".join of a list @type
TypeText(t) ==
    CASE t.t = "str" -> t.v
      [] t.t = "list" -> Join([i \in 1..Len(t.v) |-> t.v[i].v], <<" ">>)
      [] OTHER -> <<"repr">>

\* lines 48-55: the author of one Article object
AuthorOf(b, author) ==
    IF ~Truthy(author) /\ Truthy(Get(b, "author", PyNone))
    THEN LET a == b.v["author"]
         IN CASE a.t = "list" /\ Truthy(a) /\ a.v[1].t = "dict"
                     -> Get(a.v[1], "name", PyNone)
              [] a.t = "dict" -> Get(a, "name", PyNone)
              [] a.t = "str" -> a
              [] OTHER -> author
    ELSE author

\* lines 56-57: the date of one Article object
DateOf(b, date) ==
    IF ~Truthy(date)
    THEN PyOr(Get(b, "datePublished", PyNone), Get(b, "dateModified", PyNone))
    ELSE date

RECURSIVE ScanLd(_, _, _)
\* lines 44-57 over the objects of all blocks, in order: b.get on something
\* that is not a dict raises AttributeError, " ".join on a list holding a
\* non-string raises TypeError
ScanLd(bs, author, date) ==
    IF bs = <<>> THEN [raised |-> FALSE, author |-> author, date |-> date]
    ELSE LET b == Head(bs)
         IN IF b.t # "dict"
            THEN [raised |-> TRUE, exc |-> "AttributeError"]
            ELSE LET t == Get(b, "@type", PyStr(<<>>))
                 IN IF t.t = "list" /\ \E i \in 1..Len(t.v) : t.v[i].t # "str"
                    THEN [raised |-> TRUE, exc |-> "TypeError"]
                    ELSE IF Contains(TypeText(t), <<"Article">>)
                         THEN ScanLd(Tail(bs), AuthorOf(b, author), DateOf(b, date))
                         ELSE ScanLd(Tail(bs), author, date)

\* _extract_schema_meta(html)
extract_schema_meta(html) ==
    LET r == ScanLd(Flatten([i \in 1..Len(html.ld) |-> LdObjects(html.ld[i])]),
                    PyNone, PyNone)
    IN IF r.raised THEN r
       ELSE [raised |-> FALSE,
             author |-> IF ~Truthy(r.author) THEN html.meta_author ELSE r.author,
             date |-> IF ~Truthy(r.date) THEN html.meta_date ELSE r.date]

\* _outbound_link_score(html): the ratio min(1, good / max(1, len(hrefs))) as
\* the pair good, total (0/1 when the page has no link)
outbound_link_score(html) ==
    IF html.hrefs = <<>> THEN [good |-> 0, total |-> 1]
    ELSE [good |-> Cardinality({i \in 1..Len(html.hrefs) :
                        LET d == domain(html.hrefs[i])
                        IN d # <<>> /\ is_good_domain(d)}),
          total |-> Len(html.hrefs)]

RECURSIVE HitsUpTo(_, _)
\* the number of reputable hits among the first n results
HitsUpTo(results, n) ==
    IF n = 0 THEN 0
    ELSE LET d == domain(PyOr(results[n], PyStr(<<>>)))
         IN HitsUpTo(results, n - 1) + (IF d # <<>> /\ is_good_domain(d) THEN 1 ELSE 0)

\* _corroborate_claim(phrase): the search answers with its result links, with
\* a status that is not ok, or not at all (an exception, caught)
corroborate_claim(search) ==
    IF search.outcome # "ok" THEN FALSE
    ELSE HitsUpTo(search.results, Len(search.results)) >= 2

Reason(text) == [text |-> text]
OutboundReason(bonus) == [text |-> "citations/outbound links", bonus |-> bonus]

\* as label_of, with the High boundary one too high
label_of_strict(score) ==
    IF score > HighMin THEN "High" ELSE IF score >= MediumMin THEN "Medium" ELSE "Low"

\* line 130
label_of(score) ==
    IF score >= HighMin THEN "High" ELSE IF score >= MediumMin THEN "Medium" ELSE "Low"

\* as clamp, with the cap at 90
clamp_at_ninety(score) ==
    LET lo == IF score < 90 THEN score ELSE 90
    IN IF lo > 0 THEN lo ELSE 0

\* line 129
clamp(score) ==
    LET lo == IF score < 100 THEN score ELSE 100
    IN IF lo > 0 THEN lo ELSE 0

\* lines 109-111
domain_signal(url) ==
    IF is_good_domain(domain(url))
    THEN [score |-> DomainPoints, reasons |-> <<Reason("reputable domain")>>]
    ELSE [score |-> 0, reasons |-> <<>>]

\* lines 120-123
outbound_signal(html) ==
    LET ol == outbound_link_score(html)
    IN IF 5 * ol.good >= ol.total       \* ol >= 0.2
       THEN LET bonus == (10 * ol.good) \div ol.total   \* int(10 * ol)
            IN [score |-> bonus, reasons |-> <<OutboundReason(bonus)>>]
       ELSE [score |-> 0, reasons |-> <<>>]

\* lines 125-127
corroboration_signal(item, search) ==
    LET phrase == PyOr(PyOr(item.title, item.snippet), PyStr(<<>>))
    IN IF Truthy(phrase) /\ corroborate_claim(search)
       THEN [score |-> CorroborationPoints,
             reasons |-> <<Reason("independent corroboration")>>]
       ELSE [score |-> 0, reasons |-> <<>>]

\* lines 113-127: the body of `if html:`
page_signals(item, html, search) ==
    LET c == IF has_c2pa(html)
             THEN [score |-> C2paPoints,
                   reasons |-> <<Reason("content credentials (C2PA)")>>]
             ELSE [score |-> 0, reasons |-> <<>>]
        m == extract_schema_meta(html)
    IN IF m.raised THEN [raised |-> TRUE, exc |-> m.exc]
       ELSE LET a == IF Truthy(m.author)
                     THEN [score |-> AuthorPoints,
                           reasons |-> <<Reason("named author")>>]
                     ELSE [score |-> 0, reasons |-> <<>>]
                t == IF Truthy(m.date)
                     THEN [score |-> DatePoints,
                           reasons |-> <<Reason("timestamp present")>>]
                     ELSE [score |-> 0, reasons |-> <<>>]
                o == outbound_signal(html)
                k == corroboration_signal(item, search)
            IN [raised |-> FALSE,
                score |-> c.score + a.score + t.score + o.score + k.score,
                reasons |-> c.reasons \o a.reasons \o t.reasons
                            \o o.reasons \o k.reasons]

\* as content_signals, with the corroboration evaluated outside `if html:`
content_signals_corroborate_always(item, html, search) ==
    IF ~html.present
    THEN [raised |-> FALSE, score |-> corroboration_signal(item, search).score,
          reasons |-> corroboration_signal(item, search).reasons]
    ELSE page_signals(item, html, search)

\* lines 112-127: the signals read from the page, and the corroboration
content_signals(item, html, search) ==
    IF ~html.present THEN [raised |-> FALSE, score |-> 0, reasons |-> <<>>]
    ELSE page_signals(item, html, search)

\* url.startswith("http")
StartsWithHttp(s) == s # <<>> /\ s[1] \in {"http", "https"}

\* as reliability_score, with the domain reason appended after the others
reliability_score_domain_last(item, page, search) ==
    LET url == item.url
        html == IF Truthy(url) /\ StartsWithHttp(url.v)
                THEN fetch_html(page) ELSE EmptyHtml
        dsig == domain_signal(url)
        csig == content_signals(item, html, search)
    IN IF csig.raised THEN [raised |-> TRUE, exc |-> csig.exc]
       ELSE LET score == clamp(dsig.score + csig.score)
            IN [raised |-> FALSE, score |-> score, label |-> label_of(score),
                reasons |-> csig.reasons \o dsig.reasons]

\* reliability_score(item), with what the page fetch and the search answer
reliability_score(item, page, search) ==
    LET url == item.url
        html == IF Truthy(url) /\ StartsWithHttp(url.v)
                THEN fetch_html(page) ELSE EmptyHtml
        dsig == domain_signal(url)
        csig == content_signals(item, html, search)
    IN IF csig.raised THEN [raised |-> TRUE, exc |-> csig.exc]
       ELSE LET score == clamp(dsig.score + csig.score)
            IN [raised |-> FALSE, score |-> score, label |-> label_of(score),
                reasons |-> dsig.reasons \o csig.reasons]

----------------------------------------------------------------------------
(* Inputs of validate *)

Url(s) == PyStr(s)

WhoUrl == Url(<<"https", "://", "who", ".", "int", "/", "news">>)
MedrxivUrl == Url(<<"https", "://", "www", ".", "medrxiv", ".", "org", "/", "content">>)
BiorxivUpperUrl == Url(<<"HTTPS", "://", "WWW", ".", "BIORXIV", ".", "ORG", "/", "x">>)
WhoRefArxivUrl ==
    Url(<<"https", "://", "who", ".", "int", "/", "news", "?", "ref", "=",
          "arxiv", ".", "org">>)

Item4(url, year, title, snippet) ==
    [url |-> url, year |-> year, title |-> title, snippet |-> snippet]

Item(url, year) == Item4(url, year, PyStr(<<"Title">>), PyNone)

\* items as the retrievers build them: year is None or an integer, url is
\* None, "" or a string
WellFormedItems ==
    {Item(PyNone, y) : y \in {PyNone, PyInt(2018), PyInt(2020), PyInt(2021)}}
    \cup {Item(u, PyNone) : u \in {Url(<<>>), WhoUrl, MedrxivUrl, BiorxivUpperUrl,
                                   WhoRefArxivUrl}}
    \cup {Item(MedrxivUrl, PyInt(2018))}

\* an item whose year is text that is not a number
MalformedItems == {Item(PyNone, PyStr(<<"n.d.">>)), Item(WhoUrl, PyStr(<<"n.d.">>))}

TextPieces ==
    { <<"a">>, <<"[", "1", "]">>, <<"[", "2", "]">>, <<"[", "3", "]">>,
      <<"[", "0", "]">>, <<"[", "1", "2", "]">>, <<"[", "0", "1", "]">>,
      <<"[", "1">>, <<"[", "]">>, <<"[", "x", "]">>, <<"[", "[", "4", "]">>,
      BANNER, <<"(!)">> }

Texts == {Flatten(ps) : ps \in SeqsUpTo(TextPieces, MaxPieces)}

PlainItem == Item(WhoUrl, PyNone)

NotCalled == [raised |-> FALSE, called |-> FALSE]

\* texts of every shape against item lists that differ in length only
InputsValidateTexts ==
    /\ vtext \in Texts
    /\ vitems \in SeqsUpTo({PlainItem}, MaxItems)
    /\ vhorizon = 5
    /\ vnow = 2026

\* item lists of every shape against a few texts
InputsValidateItems ==
    /\ vtext \in {<<>>, <<"a", "[", "1", "]">>, <<"[", "3", "]">>}
    /\ vitems \in SeqsUpTo(WellFormedItems \cup MalformedItems, MaxItems)
    /\ vhorizon \in {3, 5}
    /\ vnow \in {2025, 2026}

ValidateIdle ==
    /\ vtext = <<>> /\ vitems = <<>> /\ vhorizon = 5 /\ vnow = 2026
    /\ vpc = "idle" /\ vreport = NotCalled

InitValidate ==
    /\ InputsValidateTexts \/ InputsValidateItems
    /\ vpc = "input"
    /\ vreport = NotCalled

----------------------------------------------------------------------------
(* Inputs of reliability_score *)

ExampleUrl == Url(<<"https", "://", "example", ".", "com", "/", "x">>)
CdcUrl == Url(<<"https", "://", "www", ".", "cdc", ".", "gov", "/", "vaccines">>)

ScoreUrls ==
    { PyNone, Url(<<>>), WhoUrl, ExampleUrl, CdcUrl,
      Url(<<"https", "://", "www", ".", "who", ".", "int", "/", "news">>),
      Url(<<"https", "://", "who", ".", "int", ":", "443", "/", "news">>),
      Url(<<"https", "://", "WHO", ".", "INT", "/", "news">>),
      Url(<<"https", "://", "cdc", ".", "gov", "/">>),
      Url(<<"http", "://", "mit", ".", "edu", "/">>),
      Url(<<"https", "://", "www", ".", "nature", ".", "com", "/", "articles">>),
      Url(<<"https", "://", "example", ".", "com", "/", "?", "u", "=", "who", ".", "int">>),
      Url(<<"https", "://", "who", ".", "int", ".", "example", ".", "com", "/">>),
      Url(<<"who", ".", "int", "/", "news">>),
      Url(<<"ftp", "://", "who", ".", "int", "/", "x">>),
      Url(<<"https", "://", "[", "who", ".", "int", "/">>) }

Html(c2pa, ld, meta_author, meta_date, hrefs) ==
    [present |-> TRUE, c2pa |-> c2pa, ld |-> ld, meta_author |-> meta_author,
     meta_date |-> meta_date, hrefs |-> hrefs]

Fetched(html) == [ok |-> TRUE, html |-> html]
FetchFailed == [ok |-> FALSE, html |-> EmptyHtml]

Name(n) == PyStr(<<n>>)
ArticleType == PyStr(<<"News", "Article">>)
Obj(type, fields) == PyDict(("@type" :> type) @@ fields)
Person == PyDict("name" :> Name("Jane"))

InvalidBlock == [t |-> "invalid"]

\* what a ld+json block can hold
LdBlocks ==
    { InvalidBlock,
      \* valid JSON that is not an object
      Name("hello"), PyInt(42), PyNone, PyList(<<PyInt(1), PyInt(2)>>),
      \* Article objects
      Obj(ArticleType, "author" :> Name("Jane")),
      Obj(ArticleType, ("author" :> Person) @@ ("datePublished" :> Name("2020-01-01"))),
      Obj(ArticleType, ("author" :> PyList(<<Person>>)) @@ ("dateModified" :> Name("2021"))),
      Obj(ArticleType, "author" :> PyList(<<Name("Jane")>>)),
      Obj(ArticleType, "author" :> PyDict("url" :> Name("u"))),
      Obj(ArticleType, ("datePublished" :> PyStr(<<>>)) @@ ("dateModified" :> Name("2021"))),
      Obj(PyList(<<PyInt(1)>>), "datePublished" :> Name("2019")),
      Obj(PyList(<<Name("Thing"), Name("Article")>>), "datePublished" :> Name("2019")),
      \* other objects
      Obj(Name("WebPage"), ("author" :> Name("Bob")) @@ ("datePublished" :> Name("2018"))),
      PyDict("author" :> Name("Bob")),
      \* a list of objects
      PyList(<<Obj(Name("WebPage"), "author" :> Name("Bob")),
               Obj(ArticleType, "author" :> Name("Ann"))>>) }

GoodHref == Url(<<"https", "://", "www", ".", "cdc", ".", "gov", "/", "a">>)
OtherHref == Url(<<"https", "://", "example", ".", "com", "/", "b">>)
RelativeHref == Url(<<"/", "about">>)

SearchFailed == [outcome |-> "exception", results |-> <<>>]
SearchNotOk == [outcome |-> "status", results |-> <<>>]
SearchOk(results) == [outcome |-> "ok", results |-> results]
TwoGoodHits == SearchOk(<<GoodHref, OtherHref, WhoUrl>>)
OneGoodHit == SearchOk(<<OtherHref, GoodHref>>)
GoodHref2 == Url(<<"https", "://", "www", ".", "cdc", ".", "gov", "/", "b">>)
\* two hits on one reputable domain
SameDomainHits == SearchOk(<<GoodHref, GoodHref2>>)
\* a hit on the item's own domain beside one other reputable hit
OwnDomainHits == SearchOk(<<WhoUrl, GoodHref>>)

SimplePage ==
    Fetched(Html({"contentauth"}, <<>>, Name("Jane"), PyNone,
                 <<GoodHref, RelativeHref, OtherHref>>))

ScoreItem(url, title, snippet) == Item4(url, PyNone, title, snippet)

\* urls of every shape
InputsScoreUrls ==
    /\ sitem \in {ScoreItem(u, t, PyNone) : u \in ScoreUrls, t \in {PyNone, Name("Title")}}
    /\ spage \in {FetchFailed, SimplePage}
    /\ ssearch \in {SearchFailed, TwoGoodHits}

\* structured metadata of every shape
InputsScoreMeta ==
    /\ sitem \in {ScoreItem(WhoUrl, Name("Title"), PyNone)}
    /\ spage \in {Fetched(Html(c, ld, ma, md, <<>>)) :
                    c \in {{}, {"rel=c2pa"}},
                    ld \in SeqsUpTo(LdBlocks, MaxBlocks),
                    ma \in {PyNone, Name("Meta Author")},
                    md \in {PyNone, Name("2022-02-02")}}
    /\ ssearch \in {SearchFailed}

\* every combination of signals
InputsScoreSignals ==
    /\ sitem \in {ScoreItem(u, t, s) : u \in {WhoUrl, ExampleUrl},
                                      t \in {PyNone, Name("Title")},
                                      s \in {PyNone, Name("Snippet")}}
    /\ spage \in {Fetched(Html(c, ld, PyNone, md, hrefs)) :
                    c \in {{}, {"application/c2pa"}},
                    ld \in {<<>>, <<Obj(ArticleType, "author" :> Name("Jane"))>>},
                    md \in {PyNone, Name("2022-02-02")},
                    hrefs \in SeqsUpTo({GoodHref, OtherHref}, MaxLinks)}
              \cup {Fetched(EmptyHtml), FetchFailed}
    /\ ssearch \in {SearchNotOk, OneGoodHit, TwoGoodHits, SameDomainHits, OwnDomainHits}

\* links of every shape
InputsScoreLinks ==
    /\ sitem \in {ScoreItem(WhoUrl, Name("Title"), PyNone)}
    /\ spage \in {Fetched(Html({}, <<>>, PyNone, PyNone, hrefs)) :
                    hrefs \in SeqsUpTo({GoodHref, RelativeHref, Url(<<>>)}, MaxLinks)}
    /\ ssearch \in {SearchFailed}

ScoreIdle ==
    /\ sitem = ScoreItem(PyNone, PyNone, PyNone)
    /\ spage = FetchFailed /\ ssearch = SearchFailed
    /\ spc = "idle" /\ sresult = NotCalled
    /\ ssearch2 = SearchFailed /\ sresult2 = NotCalled

InitScore ==
    /\ InputsScoreUrls \/ InputsScoreMeta \/ InputsScoreSignals \/ InputsScoreLinks
    /\ spc = "input"
    /\ sresult = NotCalled
    /\ ssearch2 = SearchFailed /\ sresult2 = NotCalled

----------------------------------------------------------------------------
(* The pipeline: assess_items, synthesize, validate *)

ReliabilityKeys == {"reliability_score", "reliability_label", "reliability_reasons"}

\* provenance_validator.py lines 137-140: a copy of the item with three keys set
enriched(it, res) ==
    [k \in DOMAIN it \cup ReliabilityKeys |->
        CASE k = "reliability_score" -> res.score
          [] k = "reliability_label" -> res.label
          [] k = "reliability_reasons" -> res.reasons
          [] OTHER -> it[k]]

\* the dicts a list of references points to
ItemsAt(heap, refs) == [i \in 1..Len(refs) |-> heap[refs[i]]]

\* as append_scored, setting the three keys on the item itself
append_in_place(prev, ref, res) ==
    IF res.raised
    THEN [raised |-> TRUE, exc |-> res.exc, heap |-> prev.heap, out |-> prev.out]
    ELSE [raised |-> FALSE, exc |-> "",
          heap |-> [prev.heap EXCEPT ![ref] = enriched(prev.heap[ref], res)],
          out |-> Append(prev.out, ref)]

\* provenance_validator.py lines 137-141: the copy is made, filled and appended
append_scored(prev, ref, res) ==
    IF res.raised
    THEN [raised |-> TRUE, exc |-> res.exc, heap |-> prev.heap, out |-> prev.out]
    ELSE [raised |-> FALSE, exc |-> "",
          heap |-> Append(prev.heap, enriched(prev.heap[ref], res)),
          out |-> Append(prev.out, Len(prev.heap) + 1)]

\* provenance_validator.py lines 135-141: one turn of the loop
assess_step(prev, ref, world) ==
    IF prev.raised THEN prev
    ELSE append_scored(prev, ref,
                       reliability_score(prev.heap[ref], world.page, world.search))

\* provenance_validator.py lines 135-141: the loop, after n items
RECURSIVE assess_upto(_, _, _, _)
assess_upto(heap, items, world, n) ==
    IF n = 0 THEN [raised |-> FALSE, exc |-> "", heap |-> heap, out |-> <<>>]
    ELSE assess_step(assess_upto(heap, items, world, n - 1), items[n], world)

\* assess_items(items): the memory after the call and the list returned
assess_items(heap, items, world) == assess_upto(heap, items, world, Len(items))

\* synthesizer.py lines 53-65: the fields of an item the prompt carries
payload(items) ==
    [i \in 1..Len(items) |->
        [title |-> items[i].title, year |-> items[i].year, url |-> items[i].url,
         snippet |-> PyOr(items[i].snippet, PyStr(<<>>)),
         reliability_label |-> items[i].reliability_label]]

\* synthesizer.py lines 21-30: "[i] year. title. url [rel]"
source_line(i, it) ==
    [index |-> i,
     year |-> PyOr(it.year, PyStr(<<>>)),
     title |-> PyOr(it.title, PyStr(<<"Untitled">>)),
     url |-> PyOr(it.url, PyStr(<<>>)),
     rel |-> it.reliability_label]

\* as format_sources, numbering from 0
format_sources_from_zero(items) ==
    [i \in 1..Len(items) |-> source_line(i - 1, items[i])]

\* synthesizer.py lines 32-33: enumerate(items, start=1)
format_sources(items) ==
    [i \in 1..Len(items) |-> source_line(i, items[i])]

\* main_agent.py: route.time_horizon_years, and the year of the run
RouteHorizon == 5
RunYear == 2026

\* items as run_pipeline builds them: a guideline, a preprint, a note
PipelineItems ==
    { Item4(WhoUrl, PyInt(2021), Name("Guideline"), Name("Snippet")),
      Item4(MedrxivUrl, PyInt(2018), Name("Preprint"), PyNone),
      Item4(Url(<<>>), PyNone, Name("Note"), PyNone) }

\* what the web answers during the run
Worlds ==
    { [page |-> FetchFailed, search |-> SearchFailed],
      [page |-> SimplePage, search |-> TwoGoodHits],
      [page |-> Fetched(Html({}, <<Name("hello")>>, PyNone, PyNone, <<>>)),
       search |-> SearchFailed] }

\* what the language model may answer
LlmPieces ==
    { <<"a">>, <<"[", "1", "]">>, <<"[", "2", "]">>, <<"[", "3", "]">>, BANNER }

LlmTexts == {Flatten(ps) : ps \in SeqsUpTo(LlmPieces, MaxPieces)}

PipelineIdle ==
    /\ pheap = <<>> /\ pitems = <<>> /\ pworld = [page |-> FetchFailed, search |-> SearchFailed]
    /\ pscored = <<>> /\ psources = <<>> /\ ptext = <<>>
    /\ preport = NotCalled /\ ppc = "idle"

\* every item of the list is a dict of its own
InitPipeline ==
    /\ pheap \in SeqsUpTo(PipelineItems, MaxItems)
    /\ pitems = [i \in 1..Len(pheap) |-> i]
    /\ pworld \in Worlds
    /\ pscored = <<>> /\ psources = <<>> /\ ptext = <<>>
    /\ preport = NotCalled /\ ppc = "assess"

----------------------------------------------------------------------------
(* common_http.py: safe_get *)

\* line 165: the size cap of the HEAD probe, in bytes
SizeCap == 2500000

TrackingKeys == {"fbclid", "gclid", "ref"}

\* k.startswith("utm_") or k in {"fbclid", "gclid", "ref"}
IsTracking(k) == k \in TrackingKeys \/ k \in {"utm_source", "utm_medium"}

RECURSIVE SplitAmp(_)
\* the parameters of a query string, split at "&"
SplitAmp(q) ==
    IF q = <<>> THEN <<>>
    ELSE LET stop == CHOOSE i \in 1..(Len(q) + 1) :
                        /\ (i = Len(q) + 1 \/ q[i] = "&")
                        /\ \A j \in 1..(i - 1) : q[j] # "&"
         IN <<SubSeq(q, 1, stop - 1)>> \o SplitAmp(SubSeq(q, stop + 1, Len(q)))

RECURSIVE JoinAmp(_)
JoinAmp(ps) ==
    IF ps = <<>> THEN <<>>
    ELSE IF Len(ps) = 1 THEN ps[1]
    ELSE ps[1] \o <<"&">> \o JoinAmp(Tail(ps))

\* lines 109-113: the url without its tracking parameters; urlparse raises
\* ValueError on a netloc with an unbalanced bracket
clean_url(u) ==
    IF ~urlparse_netloc(u).ok THEN [ok |-> FALSE, exc |-> "ValueError"]
    ELSE IF "?" \notin Range(u) THEN [ok |-> TRUE, v |-> u]
    ELSE LET q == CHOOSE i \in 1..Len(u) :
                     u[i] = "?" /\ \A j \in 1..(i - 1) : u[j] # "?"
             kept == SelectSeq(SplitAmp(SubSeq(u, q + 1, Len(u))),
                               LAMBDA p : p # <<>> /\ ~IsTracking(p[1]))
         IN [ok |-> TRUE,
             v |-> IF kept = <<>> THEN SubSeq(u, 1, q - 1)
                   ELSE SubSeq(u, 1, q) \o JoinAmp(kept)]

\* lines 126-139: an error while loading or asking robots.txt allows
is_allowed_by_robots(robots) == robots # "disallow"

\* requests sends http and https urls only; any other raises before sending
Sendable(u) == StartsWithHttp(u)

NoResponse == [ok |-> FALSE]
HeadResponse(clen) == [ok |-> TRUE, clen |-> clen]
GetResponse(status, size) == [ok |-> TRUE, status |-> status, size |-> size]

Returns(value, sent) == [raised |-> FALSE, exc |-> "", value |-> value, sent |-> sent]

\* lines 157-166: TRUE when the probe ends the call
head_says_oversize(head) ==
    /\ head.ok
    /\ head.clen.t = "str"
    /\ AllDigits(head.clen.v)
    /\ DecimalValue(head.clen.v) > SizeCap

\* lines 168-174, after a probe that did not end the call
get_after_probe(allow_non_200, get) ==
    IF ~get.ok THEN Returns(PyNone, <<"HEAD", "GET">>)
    ELSE IF ~allow_non_200 /\ get.status # 200 THEN Returns(PyNone, <<"HEAD", "GET">>)
    ELSE Returns([t |-> "response", status |-> get.status, size |-> get.size],
                 <<"HEAD", "GET">>)

\* lines 155-174, for a cleaned url that robots.txt allows
probe_and_get(u, allow_non_200, head, get) ==
    IF ~Sendable(u) THEN Returns(PyNone, <<>>)
    ELSE IF head_says_oversize(head) THEN Returns(PyNone, <<"HEAD">>)
    ELSE get_after_probe(allow_non_200, get)

\* lines 150-153, for a url that is not empty
clean_and_get(url, allow_non_200, robots, head, get) ==
    IF ~clean_url(url.v).ok
    THEN [raised |-> TRUE, exc |-> clean_url(url.v).exc, value |-> PyNone, sent |-> <<>>]
    ELSE IF ~is_allowed_by_robots(robots) THEN Returns(PyNone, <<>>)
    ELSE probe_and_get(clean_url(url.v).v, allow_non_200, head, get)

\* safe_get(url, allow_non_200): the value returned or the exception raised,
\* and the requests sent to the url
safe_get(url, allow_non_200, robots, head, get) ==
    IF ~Truthy(url) THEN Returns(PyNone, <<>>)
    ELSE clean_and_get(url, allow_non_200, robots, head, get)

MalformedUrl == Url(<<"http", "://", "[", "bad">>)
TrackedUrl ==
    Url(<<"https", "://", "who", ".", "int", "/", "news", "?", "utm_source",
          "=", "x", "&", "id", "=", "7">>)

SafeGetUrls == {Url(<<>>), WhoUrl, WhoRefArxivUrl, TrackedUrl, RelativeHref, MalformedUrl}

ContentLengths ==
    { PyNone, Name("chunked"), PyStr(<<"9", "9", "9">>),
      PyStr(<<"2", "5", "0", "0", "0", "0", "0">>),
      PyStr(<<"2", "5", "0", "0", "0", "0", "1">>) }

HeadAnswers == {NoResponse} \cup {HeadResponse(c) : c \in ContentLengths}

GetAnswers ==
    {NoResponse}
    \cup {GetResponse(st, sz) : st \in {200, 404}, sz \in {999, SizeCap, SizeCap + 1}}

SafeGetIdle ==
    /\ gurl = Url(<<>>) /\ gallow = FALSE /\ grobots = "allow"
    /\ ghead = NoResponse /\ gget = NoResponse
    /\ gpc = "idle" /\ gresult = NotCalled

InitSafeGet ==
    /\ gurl \in SafeGetUrls
    /\ gallow \in BOOLEAN
    /\ grobots \in {"allow", "disallow", "error"}
    /\ ghead \in HeadAnswers
    /\ gget \in GetAnswers
    /\ gpc = "input" /\ gresult = NotCalled

----------------------------------------------------------------------------
(* common_http.py: get_http_session called from several threads *)

NumThreads == 2
Threads == 1..NumThreads

\* a session as its constructor leaves it: the headers of this client not
\* set, the retrying adapters not mounted
NewSession == [headers |-> FALSE, adapters |-> FALSE]

NoSession == [session |-> 0, headers |-> FALSE, adapters |-> FALSE]

\* the session a caller is handed, and the state it is in at that moment
Snapshot(ref) ==
    [session |-> ref, headers |-> csessions[ref].headers,
     adapters |-> csessions[ref].adapters]

SessionIdle ==
    /\ SESSION = 0 /\ SESSION_LOCK = 0 /\ csessions = <<>>
    /\ cpc = [t \in Threads |-> "idle"]
    /\ cret = [t \in Threads |-> NoSession]

\* the module has just been imported and every thread calls get_http_session
InitSession ==
    /\ SESSION = 0 /\ SESSION_LOCK = 0 /\ csessions = <<>>
    /\ cpc = [t \in Threads |-> "check"]
    /\ cret = [t \in Threads |-> NoSession]

----------------------------------------------------------------------------
(* common_http.py: rate_limit and the requests of safe_get, from several threads *)

\* line 42 with PER_HOST_MAX_RPS = 0.5 (settings.py line 25): seconds
MinInterval == 2

\* the clock is followed up to this second
MaxTime == 4

\* line 96: host = urlparse(url).netloc.lower()
host_of(url) == LowerStr(urlparse_netloc(url.v).v)

\* line 100: wait = _MIN_INTERVAL - (time.time() - last)
wait_for(last, now) == MinInterval - (now - last)

RateUrls == {WhoUrl, GoodHref}
RateHosts == {host_of(u) : u \in RateUrls}

NotSent == [head |-> -1, get |-> -1]

RateIdle ==
    /\ rnow = MinInterval
    /\ rurl = [t \in Threads |-> WhoUrl]
    /\ rpc = [t \in Threads |-> "idle"]
    /\ rwake = [t \in Threads |-> 0]
    /\ rsent = [t \in Threads |-> NotSent]
    /\ HOST_LOCKS = [h \in RateHosts |-> 0]
    /\ LAST_HIT_TS = [h \in RateHosts |-> 0]

\* every thread is in safe_get, about to call rate_limit; no host has been
\* hit yet (_LAST_HIT_TS.get(host, 0.0)) and the clock is past one interval
InitRate ==
    /\ rnow = MinInterval
    /\ rurl \in [Threads -> RateUrls]
    /\ rpc = [t \in Threads |-> "acquire"]
    /\ rwake = [t \in Threads |-> 0]
    /\ rsent = [t \in Threads |-> NotSent]
    /\ HOST_LOCKS = [h \in RateHosts |-> 0]
    /\ LAST_HIT_TS = [h \in RateHosts |-> 0]

----------------------------------------------------------------------------
(* main_agent.py: the GUIDELINE_COMPARE branch of run_pipeline *)

\* a call binds its keyword arguments to parameters of the same name; a
\* keyword the function does not declare raises TypeError
Accepts(params, kwargs) == kwargs \subseteq params

\* guidelines.py line 89: def fetch_guidelines_for_query(query, years, max_results)
fetch_guidelines_params == {"query", "years", "max_results"}

\* blog_news_retriever.py line 71: def web_search_duckduckgo(query, max_results)
web_search_params == {"query", "max_results"}

\* retriever.py lines 137-141
retrieve_pico_params ==
    {"clean_query", "time_horizon_years", "population", "outcomes", "k"}

Raises(exc) == [raised |-> TRUE, exc |-> exc, passed |-> FALSE, items |-> <<>>]

FallbackNote == <<"No direct WHO/CDC guideline matched the exact query">>
WebNote(alt) == <<"Broadened web query used:">> \o alt

\* lines 32-37: the query without compare / versus / vs / between
strip_compare_words(q) ==
    SelectSeq(q, LAMBDA w : w \notin {"compare", "versus", "vs", "between"})

\* lines 39-49: three broader queries
broaden_query(base) ==
    << strip_compare_words(base) \o <<"infant", "vaccination", "schedule">>,
       <<"infant", "vaccination", "schedule", "WHO", "CDC">>,
       <<"infant", "immunization", "schedule", "WHO", "CDC">> >>

\* lines 121-141: the guideline search and the broader one after an empty answer
guides_phase(world) ==
    IF ~Accepts(fetch_guidelines_params, {"clean_query", "geography", "k_per_site"})
    THEN Raises("TypeError")
    ELSE IF world.guides_exact # <<>>
    THEN [raised |-> FALSE, guides |-> world.guides_exact, fallback_note |-> PyNone]
    ELSE [raised |-> FALSE, guides |-> world.guides_broad,
          fallback_note |-> PyStr(FallbackNote)]

\* lines 148-156
papers_phase(need, world) ==
    IF ~need THEN [raised |-> FALSE, support_papers |-> <<>>]
    ELSE IF ~Accepts(retrieve_pico_params,
                     {"clean_query", "time_horizon_years", "population", "outcomes", "k"})
    THEN Raises("TypeError")
    ELSE [raised |-> FALSE, support_papers |-> world.papers]

RECURSIVE try_alts(_, _, _)
\* lines 166-170: the first broader query with an answer; web_hits is what the
\* last search returned
try_alts(alts, world, i) ==
    IF i > Len(alts) THEN [raised |-> FALSE, web_hits |-> <<>>, web_note |-> PyNone]
    ELSE IF world.web[alts[i]] # <<>>
    THEN [raised |-> FALSE, web_hits |-> world.web[alts[i]],
          web_note |-> PyStr(WebNote(alts[i]))]
    ELSE try_alts(alts, world, i + 1)

\* lines 162-170: the query is passed by position, k by keyword
web_phase(base, world) ==
    IF ~Accepts(web_search_params \ {"query"}, {"k"}) THEN Raises("TypeError")
    ELSE IF world.web[base] # <<>>
    THEN [raised |-> FALSE, web_hits |-> world.web[base], web_note |-> PyNone]
    ELSE try_alts(broaden_query(base), world, 1)

\* lines 195-200: an item per supporting paper
paper_item(d) ==
    [source_type |-> "paper", title |-> d.title, snippet |-> d.snippet,
     year |-> d.year, url |-> d.url, org |-> PyNone,
     study_type |-> d.study_type, population |-> d.population]

\* lines 182-186 and 203-207: an item per guideline or web hit
source_item(source_type, hit) ==
    [source_type |-> source_type, title |-> hit.title, snippet |-> hit.snippet,
     year |-> hit.year, url |-> hit.url, org |-> hit.org]

\* lines 188-193 and 209-214: the placeholder rows
note_item(source_type, title, snippet) ==
    [source_type |-> source_type, title |-> PyStr(title), snippet |-> snippet,
     year |-> PyNone, url |-> PyStr(<<>>), org |-> PyStr(<<"NOTE">>)]

\* lines 180-214
build_items(guides, fallback_note, support_papers, web_hits, web_note) ==
    (IF guides # <<>>
     THEN [i \in 1..Len(guides) |-> source_item("guideline", guides[i])]
     ELSE <<note_item("guideline", <<"No direct guideline found for exact query">>,
                      PyOr(fallback_note, PyStr(<<"Broader search used.">>)))>>)
    \o [i \in 1..Len(support_papers) |-> paper_item(support_papers[i])]
    \o (IF web_hits # <<>>
        THEN [i \in 1..Len(web_hits) |-> source_item("web", web_hits[i])]
        ELSE <<note_item("web", <<"No blogs/news matched the exact query">>,
                         PyOr(web_note, PyStr(<<"Tried broader queries; consider rephrasing.">>)))>>)

\* line 216: the list goes to _enrich_and_summarize
pass_items(g, p, w) ==
    [raised |-> FALSE, exc |-> "", passed |-> TRUE,
     items |-> build_items(g.guides, g.fallback_note, p.support_papers,
                           w.web_hits, w.web_note)]

\* lines 119-216: an exception of a search ends the run
guideline_compare(need, base, world) ==
    IF guides_phase(world).raised THEN guides_phase(world)
    ELSE IF papers_phase(need, world).raised THEN papers_phase(need, world)
    ELSE IF web_phase(base, world).raised THEN web_phase(base, world)
    ELSE pass_items(guides_phase(world), papers_phase(need, world),
                    web_phase(base, world))

\* route.clean_query
BaseQuery == <<"compare", "measles", "schedule", "between", "WHO", "CDC">>

Hit(title, url, org) ==
    [title |-> Name(title), snippet |-> Name("Snippet"), year |-> PyInt(2021),
     url |-> url, org |-> org]

GuidelineAnswers == {<<>>, <<Hit("WHO schedule", WhoUrl, Name("WHO")),
                             Hit("CDC schedule", GoodHref, Name("CDC"))>>}
PaperAnswers ==
    {<<>>, <<[title |-> Name("Trial"), snippet |-> Name("Snippet"),
              year |-> PyInt(2018), url |-> MedrxivUrl,
              study_type |-> Name("RCT"), population |-> PyNone]>>}
WebAnswers == {<<>>, <<Hit("Blog", ExampleUrl, Name("example.com"))>>}

WebQueries == {BaseQuery} \cup Range(broaden_query(BaseQuery))

\* what the web holds for every search the branch can make
BranchWorlds ==
    [guides_exact : GuidelineAnswers, guides_broad : GuidelineAnswers,
     papers : PaperAnswers, web : [WebQueries -> WebAnswers]]

BranchIdle ==
    /\ bneed = FALSE
    /\ bworld = [guides_exact |-> <<>>, guides_broad |-> <<>>, papers |-> <<>>,
                 web |-> [q \in WebQueries |-> <<>>]]
    /\ bpc = "idle" /\ bresult = NotCalled

InitBranch ==
    /\ bneed \in BOOLEAN
    /\ bworld \in BranchWorlds
    /\ bpc = "input" /\ bresult = NotCalled

----------------------------------------------------------------------------
(* One call of validate, or one call of reliability_score *)

Init ==
    \/ InitValidate /\ ScoreIdle /\ PipelineIdle /\ SafeGetIdle /\ SessionIdle /\ RateIdle /\ BranchIdle
    \/ InitScore /\ ValidateIdle /\ PipelineIdle /\ SafeGetIdle /\ SessionIdle /\ RateIdle /\ BranchIdle
    \/ InitPipeline /\ ValidateIdle /\ ScoreIdle /\ SafeGetIdle /\ SessionIdle /\ RateIdle /\ BranchIdle
    \/ InitSafeGet /\ ValidateIdle /\ ScoreIdle /\ PipelineIdle /\ SessionIdle /\ RateIdle /\ BranchIdle
    \/ InitSession /\ ValidateIdle /\ ScoreIdle /\ PipelineIdle /\ SafeGetIdle /\ RateIdle /\ BranchIdle
    \/ InitRate /\ ValidateIdle /\ ScoreIdle /\ PipelineIdle /\ SafeGetIdle /\ SessionIdle /\ BranchIdle
    \/ InitBranch /\ ValidateIdle /\ ScoreIdle /\ PipelineIdle /\ SafeGetIdle /\ SessionIdle /\ RateIdle

Validate ==
    /\ vpc = "input"
    /\ vreport' = validate(vtext, vitems, vhorizon, vnow)
    /\ vpc' = "done"
    /\ UNCHANGED <<vtext, vitems, vhorizon, vnow, svars, pvars, gvars, cvars, rvars, bvars>>

Score ==
    /\ spc = "input"
    /\ sresult' = reliability_score(sitem, spage, ssearch)
    /\ spc' = "done"
    /\ UNCHANGED <<sitem, spage, ssearch, ssearch2, sresult2, vvars, pvars, gvars, cvars, rvars, bvars>>

\* the same item scored again: the page is as before, the search is a new
\* request with an answer of its own
ScoreAgain ==
    /\ spc = "done"
    /\ ssearch2' \in {SearchFailed, TwoGoodHits}
    /\ sresult2' = reliability_score(sitem, spage, ssearch2')
    /\ spc' = "done2"
    /\ UNCHANGED <<sitem, spage, ssearch, sresult, vvars, pvars, gvars, cvars, rvars, bvars>>

\* main_agent.py line 53
Assess ==
    /\ ppc = "assess"
    /\ LET r == assess_items(pheap, pitems, pworld)
       IN /\ pheap' = r.heap
          /\ pscored' = r.out
          /\ ppc' = IF r.raised THEN "raised" ELSE "synthesize"
    /\ UNCHANGED <<pitems, pworld, psources, ptext, preport, vvars, svars, gvars, cvars, rvars, bvars>>

\* main_agent.py lines 65-74: the sources are numbered, the model answers
Synthesize ==
    /\ ppc = "synthesize"
    /\ psources' = format_sources(payload(ItemsAt(pheap, pscored)))
    /\ ptext' \in LlmTexts
    /\ ppc' = "validate"
    /\ UNCHANGED <<pheap, pitems, pworld, pscored, preport, vvars, svars, gvars, cvars, rvars, bvars>>

\* main_agent.py line 77
ValidateSummary ==
    /\ ppc = "validate"
    /\ preport' = validate(ptext, ItemsAt(pheap, pscored), RouteHorizon, RunYear)
    /\ ppc' = "done"
    /\ UNCHANGED <<pheap, pitems, pworld, pscored, psources, ptext, vvars, svars, gvars, cvars, rvars, bvars>>

\* common_http.py lines 141-174
SafeGet ==
    /\ gpc = "input"
    /\ gresult' = safe_get(gurl, gallow, grobots, ghead, gget)
    /\ gpc' = "done"
    /\ UNCHANGED <<gurl, gallow, grobots, ghead, gget, vvars, svars, pvars, cvars, rvars, bvars>>

others_of_session == <<vvars, svars, pvars, gvars, rvars, bvars>>

\* lines 61-62: the check without the lock
CheckSession(t) ==
    /\ cpc[t] = "check"
    /\ IF SESSION # 0
       THEN /\ cret' = [cret EXCEPT ![t] = Snapshot(SESSION)]
            /\ cpc' = [cpc EXCEPT ![t] = "done"]
       ELSE /\ cpc' = [cpc EXCEPT ![t] = "acquire"]
            /\ UNCHANGED cret
    /\ UNCHANGED <<SESSION, SESSION_LOCK, csessions, others_of_session>>

\* line 64: with _SESSION_LOCK
AcquireSessionLock(t) ==
    /\ cpc[t] = "acquire"
    /\ SESSION_LOCK = 0
    /\ SESSION_LOCK' = t
    /\ cpc' = [cpc EXCEPT ![t] = "recheck"]
    /\ UNCHANGED <<SESSION, csessions, cret, others_of_session>>

\* lines 65-66: the check under the lock; returning releases the lock
RecheckSession(t) ==
    /\ cpc[t] = "recheck"
    /\ IF SESSION # 0
       THEN /\ cret' = [cret EXCEPT ![t] = Snapshot(SESSION)]
            /\ cpc' = [cpc EXCEPT ![t] = "done"]
            /\ SESSION_LOCK' = 0
       ELSE /\ cpc' = [cpc EXCEPT ![t] = "create"]
            /\ UNCHANGED <<cret, SESSION_LOCK>>
    /\ UNCHANGED <<SESSION, csessions, others_of_session>>

\* lines 68-77: the new session is assigned to the global
CreateSession(t) ==
    /\ cpc[t] = "create"
    /\ csessions' = Append(csessions, NewSession)
    /\ SESSION' = Len(csessions) + 1
    /\ cpc' = [cpc EXCEPT ![t] = "headers"]
    /\ UNCHANGED <<SESSION_LOCK, cret, others_of_session>>

\* lines 79-82: _SESSION.headers.update
SetHeaders(t) ==
    /\ cpc[t] = "headers"
    /\ csessions' = [csessions EXCEPT ![SESSION].headers = TRUE]
    /\ cpc' = [cpc EXCEPT ![t] = "retries"]
    /\ UNCHANGED <<SESSION, SESSION_LOCK, cret, others_of_session>>

\* line 83: _install_retries(_SESSION)
InstallRetries(t) ==
    /\ cpc[t] = "retries"
    /\ csessions' = [csessions EXCEPT ![SESSION].adapters = TRUE]
    /\ cpc' = [cpc EXCEPT ![t] = "return"]
    /\ UNCHANGED <<SESSION, SESSION_LOCK, cret, others_of_session>>

\* line 84: return _SESSION, leaving the with block
ReturnSession(t) ==
    /\ cpc[t] = "return"
    /\ cret' = [cret EXCEPT ![t] = Snapshot(SESSION)]
    /\ SESSION_LOCK' = 0
    /\ cpc' = [cpc EXCEPT ![t] = "done"]
    /\ UNCHANGED <<SESSION, csessions, others_of_session>>

GetHttpSession ==
    \E t \in Threads :
        \/ CheckSession(t) \/ AcquireSessionLock(t) \/ RecheckSession(t)
        \/ CreateSession(t) \/ SetHeaders(t) \/ InstallRetries(t)
        \/ ReturnSession(t)

others_of_rate == <<vvars, svars, pvars, gvars, cvars, bvars>>

\* time passes while some call is under way
Tick ==
    /\ \E t \in Threads : rpc[t] \notin {"idle", "done"}
    /\ rnow < MaxTime
    /\ rnow' = rnow + 1
    /\ UNCHANGED <<rurl, rpc, rwake, rsent, HOST_LOCKS, LAST_HIT_TS, others_of_rate>>

\* lines 97-98: lock = _host_lock(host); with lock
AcquireHostLock(t) ==
    /\ rpc[t] = "acquire"
    /\ HOST_LOCKS[host_of(rurl[t])] = 0
    /\ HOST_LOCKS' = [HOST_LOCKS EXCEPT ![host_of(rurl[t])] = t]
    /\ rpc' = [rpc EXCEPT ![t] = "measure"]
    /\ UNCHANGED <<rnow, rurl, rwake, rsent, LAST_HIT_TS, others_of_rate>>

\* lines 99-102: wait = _MIN_INTERVAL - (time.time() - last); sleep if positive
MeasureWait(t) ==
    /\ rpc[t] = "measure"
    /\ rwake' = [rwake EXCEPT ![t] = rnow + wait_for(LAST_HIT_TS[host_of(rurl[t])], rnow)]
    /\ rpc' = [rpc EXCEPT ![t] =
                  IF wait_for(LAST_HIT_TS[host_of(rurl[t])], rnow) > 0
                  THEN "sleep" ELSE "stamp"]
    /\ UNCHANGED <<rnow, rurl, rsent, HOST_LOCKS, LAST_HIT_TS, others_of_rate>>

\* line 102: time.sleep(wait) returns, the lock still held
WakeUp(t) ==
    /\ rpc[t] = "sleep"
    /\ rnow >= rwake[t]
    /\ rpc' = [rpc EXCEPT ![t] = "stamp"]
    /\ UNCHANGED <<rnow, rurl, rwake, rsent, HOST_LOCKS, LAST_HIT_TS, others_of_rate>>

\* line 103: _LAST_HIT_TS[host] = time.time(), then the lock is released
StampAndRelease(t) ==
    /\ rpc[t] = "stamp"
    /\ LAST_HIT_TS' = [LAST_HIT_TS EXCEPT ![host_of(rurl[t])] = rnow]
    /\ HOST_LOCKS' = [HOST_LOCKS EXCEPT ![host_of(rurl[t])] = 0]
    /\ rpc' = [rpc EXCEPT ![t] = "head"]
    /\ UNCHANGED <<rnow, rurl, rwake, rsent, others_of_rate>>

\* line 159: session.head; an advertised oversize ends the call (line 164)
SendHead(t) ==
    /\ rpc[t] = "head"
    /\ rsent' = [rsent EXCEPT ![t].head = rnow]
    /\ \E oversize \in BOOLEAN :
          rpc' = [rpc EXCEPT ![t] = IF oversize THEN "done" ELSE "get"]
    /\ UNCHANGED <<rnow, rurl, rwake, HOST_LOCKS, LAST_HIT_TS, others_of_rate>>

\* line 169: session.get
SendGet(t) ==
    /\ rpc[t] = "get"
    /\ rsent' = [rsent EXCEPT ![t].get = rnow]
    /\ rpc' = [rpc EXCEPT ![t] = "done"]
    /\ UNCHANGED <<rnow, rurl, rwake, HOST_LOCKS, LAST_HIT_TS, others_of_rate>>

RateLimitedGet ==
    \E t \in Threads :
        \/ AcquireHostLock(t) \/ MeasureWait(t) \/ WakeUp(t)
        \/ StampAndRelease(t) \/ SendHead(t) \/ SendGet(t)

\* main_agent.py lines 119-216
RunGuidelineCompare ==
    /\ bpc = "input"
    /\ bresult' = guideline_compare(bneed, BaseQuery, bworld)
    /\ bpc' = "done"
    /\ UNCHANGED <<bneed, bworld, vvars, svars, pvars, gvars, cvars, rvars>>

Next ==
    \/ Validate \/ Score \/ ScoreAgain
    \/ Assess \/ Synthesize \/ ValidateSummary
    \/ SafeGet
    \/ GetHttpSession
    \/ Tick \/ RateLimitedGet
    \/ RunGuidelineCompare

Spec == Init /\ [][Next]_vars

----------------------------------------------------------------------------
(* Properties of reliability_score *)

Returned == spc = "done" /\ ~sresult.raised

\* C1: every score reliability_score returns is an integer in 0..100, and the
\* label is High iff score >= 75, Medium iff 50 <= score <= 74, Low iff
\* score <= 49.
C1_ScoreRangeAndLabel ==
    Returned =>
        /\ sresult.score \in 0..100
        /\ (sresult.label = "High") <=> (sresult.score >= 75)
        /\ (sresult.label = "Medium") <=> (sresult.score >= 50 /\ sresult.score <= 74)
        /\ (sresult.label = "Low") <=> (sresult.score <= 49)
        /\ sresult.label \in {"High", "Medium", "Low"}

\* a call that returned exactly 75, labelled High
C1_Witness == Returned /\ sresult.score = 75 /\ sresult.label = "High"

\* C2: reliability_score never raises, whatever the page holds (a JSON-LD
\* block that is unparsable, not an object, or without the expected fields).
C2_NeverRaises == spc = "done" => ~sresult.raised

\* the host of a netloc: without the port
RECURSIVE HostEnd(_, _)
HostEnd(n, i) == IF i <= Len(n) /\ n[i] # ":" THEN HostEnd(n, i + 1) ELSE i

HostOf(url) == LET n == domain(url) IN SubSeq(n, 1, HostEnd(n, 1) - 1)

\* the registrable domain of a host: its last two labels
RegistrableDomain(url) ==
    LET h == HostOf(url)
    IN IF Len(h) >= 3 THEN SubSeq(h, Len(h) - 2, Len(h)) ELSE h

RegistrableReputable(url) ==
    LET r == RegistrableDomain(url)
    IN r # <<>> /\ (r \in GOOD_DOMAINS \/ r[Len(r)] \in {"gov", "edu"})

HasDomainReason ==
    sresult.reasons # <<>> /\ sresult.reasons[1] = Reason("reputable domain")

\* C3: the domain bonus is given, with "reputable domain" as first reason,
\* iff the registrable domain of the item's URL is reputable (whatever
\* subdomain prefix or port the host carries).
C3_BonusByRegistrableDomain ==
    Returned => (HasDomainReason <=> RegistrableReputable(sitem.url))

Phrase == PyOr(PyOr(sitem.title, sitem.snippet), PyStr(<<>>))

\* C4: when the item has a title or snippet and the search returns at least
\* two reputable hits, the corroboration bonus is given, also when the page
\* fetch failed.
C4_CorroborationIndependentOfFetch ==
    (Returned /\ Truthy(Phrase) /\ corroborate_claim(ssearch)) =>
        Reason("independent corroboration") \in Range(sresult.reasons)

----------------------------------------------------------------------------
(* Properties of validate *)

\* items as the data model has them: year is None or an integer
WellTyped(items) == \A i \in 1..Len(items) : items[i].year.t \in {"None", "int"}

ValidateDone == vpc = "done" /\ WellTyped(vitems)

IssuesOf(kind) ==
    IF vreport.raised THEN <<>>
    ELSE SelectSeq(vreport.issues, LAMBDA x : x.kind = kind)

\* the indices of the bracket markers of a text: every "[", digits, "]"
MarkerValues(text) ==
    {DecimalValue(SubSeq(text, p[1] + 1, p[2] - 1)) :
        p \in {q \in (1..Len(text)) \X (1..Len(text)) :
                 /\ q[1] + 1 < q[2]
                 /\ text[q[1]] = "[" /\ text[q[2]] = "]"
                 /\ \A k \in (q[1] + 1)..(q[2] - 1) : text[k] \in Digits}}

StrictlyAscending(xs) == \A i \in 1..(Len(xs) - 1) : xs[i] < xs[i + 1]

OffendingMarkers == {m \in MarkerValues(vtext) : m < 1 \/ m > Len(vitems)}

\* C5: the out-of-range issue is reported iff some marker index lies outside
\* 1..len(items); it is reported once and lists exactly the distinct
\* offending indices in ascending order.
C5_OutOfRangeIssue ==
    ValidateDone =>
        /\ ~vreport.raised
        /\ Len(IssuesOf("out_of_range")) = (IF OffendingMarkers = {} THEN 0 ELSE 1)
        /\ OffendingMarkers # {} =>
              /\ Range(IssuesOf("out_of_range")[1].list) = OffendingMarkers
              /\ StrictlyAscending(IssuesOf("out_of_range")[1].list)
              /\ IssuesOf("out_of_range")[1].max = Len(vitems)

\* "[3][0]" against fewer than three items: both indices are listed, ascending
C5_Witness ==
    /\ ValidateDone
    /\ vtext = <<"[", "3", "]", "[", "0", "]">>
    /\ Len(IssuesOf("out_of_range")) = 1
    /\ IssuesOf("out_of_range")[1].list = <<0, 3>>

\* C6: the "no citations" issue is reported iff the item list is non-empty and
\* the text holds no marker; an empty item list and a text without markers
\* give no citation issue at all.
C6_NoCitationsIssue ==
    ValidateDone =>
        /\ ~vreport.raised
        /\ Len(IssuesOf("no_citations"))
              = (IF Len(vitems) > 0 /\ MarkerValues(vtext) = {} THEN 1 ELSE 0)
        /\ (vitems = <<>> /\ MarkerValues(vtext) = {}) =>
              (IssuesOf("out_of_range") = <<>> /\ IssuesOf("no_citations") = <<>>)

\* items, and a text with brackets but no marker: the issue is reported
C6_Witness ==
    /\ ValidateDone
    /\ Len(vitems) > 0
    /\ vtext = <<"[", "x", "]", "[", "1">>
    /\ Len(IssuesOf("no_citations")) = 1

CountOcc(hay, needle) ==
    Cardinality({i \in 1..(Len(hay) - Len(needle) + 1) :
                    SubSeq(hay, i, i + Len(needle) - 1) = needle})

\* C7 as stated: validated_text holds the banner exactly once, whatever the
\* input text.
C7_BannerExactlyOnce ==
    (ValidateDone /\ ~vreport.raised) =>
        CountOcc(vreport.validated_text, BANNER) = 1

\* C7 as amended: a text without the banner gets it appended once, a text
\* with the banner is returned unchanged (as many banners as it came with),
\* and validating the validated text returns it unchanged.
C7_BannerEnsured ==
    ValidateDone =>
        /\ ~vreport.raised
        /\ CountOcc(vtext, BANNER) = 0 =>
              /\ vreport.validated_text = vtext \o <<"\n", "\n">> \o BANNER
              /\ CountOcc(vreport.validated_text, BANNER) = 1
        /\ CountOcc(vtext, BANNER) >= 1 => vreport.validated_text = vtext
        /\ CountOcc(vreport.validated_text, BANNER)
              = (IF CountOcc(vtext, BANNER) = 0 THEN 1 ELSE CountOcc(vtext, BANNER))
        /\ validate(vreport.validated_text, vitems, vhorizon, vnow).validated_text
              = vreport.validated_text

\* a text that already ends with the banner comes back unchanged
C7_Witness ==
    /\ ValidateDone
    /\ vtext = <<"a">> \o BANNER
    /\ vreport.validated_text = vtext

\* the host of an item's URL holds a preprint host name
PreprintHost(url) ==
    Truthy(url) /\ \E h \in PREPRINT_HINTS : Contains(HostOf(url), h)

\* C8: the preprint issue is reported iff the host of some item's URL is a
\* preprint host; a preprint host name in the path or the query string of
\* another host's URL gives no issue.
C8_PreprintByHost ==
    (ValidateDone /\ ~vreport.raised) =>
        (Len(IssuesOf("preprint")) = 1
            <=> \E i \in 1..Len(vitems) : PreprintHost(vitems[i].url))

StaleYears ==
    {vitems[i].year.v :
        i \in {k \in 1..Len(vitems) :
                 vitems[k].year.t = "int" /\ vnow - vitems[k].year.v > vhorizon}}

\* C9: the recency issue is reported iff some item has a year with
\* current_year - year > time_horizon_years; it is reported once and lists
\* exactly those years, deduplicated, ascending.
C9_RecencyIssue ==
    ValidateDone =>
        /\ ~vreport.raised
        /\ Len(IssuesOf("stale")) = (IF StaleYears = {} THEN 0 ELSE 1)
        /\ StaleYears # {} =>
              /\ Range(IssuesOf("stale")[1].list) = StaleYears
              /\ StrictlyAscending(IssuesOf("stale")[1].list)

\* one item exactly time_horizon_years old beside an older one: only the
\* older year is listed
C9_Witness ==
    /\ ValidateDone
    /\ \E i \in 1..Len(vitems) :
          vitems[i].year.t = "int" /\ vnow - vitems[i].year.v = vhorizon
    /\ Len(IssuesOf("stale")) = 1
    /\ IssuesOf("stale")[1].list = <<2018>>

\* C10: validate never raises, whatever is absent or malformed in an item.
C10_ValidateNeverRaises == vpc = "done" => ~vreport.raised


\* ---------------------------------------------------------------------------
\* reliability_score: what each signal contributes
\* ---------------------------------------------------------------------------

\* the call has been made (and possibly repeated) and returned
Scored == spc \in {"done", "done2"} /\ ~sresult.raised

\* the page content the call got to read, if any
ContentFetched ==
    /\ Truthy(sitem.url)
    /\ StartsWithHttp(sitem.url.v)
    /\ fetch_html(spage).present

DomainReason == Reason("reputable domain")

\* C13: when no page content is fetched the call returns and the score is the
\* domain prior alone: an item without URL gets 0, "Low" and no reasons; an
\* item whose domain is who.int gets exactly the domain bonus, "Low" and the
\* domain reason only.
C13_NoContentOnlyDomainPrior ==
    (spc \in {"done", "done2"} /\ ~ContentFetched) =>
        /\ ~sresult.raised
        /\ sresult.reasons \in {<<>>, <<DomainReason>>}
        /\ sresult.score = (IF sresult.reasons = <<>> THEN 0 ELSE 20)
        /\ sresult.label = "Low"
        /\ ~Truthy(sitem.url) => sresult.reasons = <<>>
        /\ (Truthy(sitem.url) /\ domain(sitem.url) = <<"who", ".", "int">>) =>
               sresult.reasons = <<DomainReason>>

\* a who.int item whose page could not be fetched, with a search that would
\* corroborate it
C13_Witness ==
    /\ spc = "done"
    /\ Truthy(sitem.url) /\ domain(sitem.url) = <<"who", ".", "int">>
    /\ ~ContentFetched
    /\ Truthy(Phrase) /\ corroborate_claim(ssearch)
    /\ sresult.score = 20

\* the links of the fetched page that have a host, and the reputable ones
OutboundLinks ==
    LET hrefs == fetch_html(spage).hrefs
    IN {i \in 1..Len(hrefs) : domain(hrefs[i]) # <<>>}

ReputableOutboundLinks ==
    {i \in OutboundLinks : is_good_domain(domain(fetch_html(spage).hrefs[i]))}

HasOutboundReason ==
    \E i \in 1..Len(sresult.reasons) :
        sresult.reasons[i].text = "citations/outbound links"

OutboundBonus ==
    LET i == CHOOSE i \in 1..Len(sresult.reasons) :
                 sresult.reasons[i].text = "citations/outbound links"
    IN sresult.reasons[i].bonus

\* C15: the outbound bonus is added exactly when the reputable fraction f of
\* the links that have a host is at least 0.2, and is floor(10 f).
C15_OutboundFractionOverHostedLinks ==
    (Scored /\ ContentFetched) =>
        LET good == Cardinality(ReputableOutboundLinks)
            total == Cardinality(OutboundLinks)
        IN /\ HasOutboundReason <=> (total > 0 /\ 5 * good >= total)
           /\ HasOutboundReason =>
                  /\ OutboundBonus = (10 * good) \div total
                  /\ OutboundBonus \in 2..10

\* the reputable domains of the search hits, the item's own domain left out
IndependentDomains ==
    IF ssearch.outcome # "ok" THEN {}
    ELSE {domain(ssearch.results[i]) :
             i \in {j \in 1..Len(ssearch.results) :
                       is_good_domain(domain(ssearch.results[j]))}}
         \ {domain(sitem.url)}

HasCorroborationReason ==
    \E i \in 1..Len(sresult.reasons) :
        sresult.reasons[i].text = "independent corroboration"

\* C16: on a fetched page with a phrase to search, the corroboration bonus is
\* added exactly when the search returns hits on at least two distinct
\* reputable domains other than the item's own.
C16_CorroborationNeedsDistinctDomains ==
    (spc = "done" /\ ~sresult.raised /\ ContentFetched /\ Truthy(Phrase)) =>
        (HasCorroborationReason <=> Cardinality(IndependentDomains) >= 2)

\* the place of a reason in the fixed order
Rank(r) ==
    CASE r.text = "reputable domain" -> 1
      [] r.text = "content credentials (C2PA)" -> 2
      [] r.text = "named author" -> 3
      [] r.text = "timestamp present" -> 4
      [] r.text = "citations/outbound links" -> 5
      [] r.text = "independent corroboration" -> 6
      [] OTHER -> 0

\* the signals that fired, by rank
Fired ==
    LET html == fetch_html(spage)
        meta == extract_schema_meta(html)
        links == outbound_link_score(html)
    IN {k \in 1..6 :
          CASE k = 1 -> is_good_domain(domain(sitem.url))
            [] k = 2 -> ContentFetched /\ has_c2pa(html)
            [] k = 3 -> ContentFetched /\ Truthy(meta.author)
            [] k = 4 -> ContentFetched /\ Truthy(meta.date)
            [] k = 5 -> ContentFetched /\ links.total > 0
                        /\ 5 * links.good >= links.total
            [] k = 6 -> ContentFetched /\ Truthy(Phrase)
                        /\ corroborate_claim(ssearch)}

\* C17: the reasons have one entry per signal that fired, none for a signal
\* that did not, no duplicates, and stand in the order domain, C2PA, author,
\* timestamp, outbound links, corroboration.
C17_ReasonsOnePerSignalInOrder ==
    Scored =>
        LET rs == sresult.reasons
        IN /\ \A i \in 1..Len(rs) : Rank(rs[i]) \in 1..6
           /\ \A i \in 1..Len(rs) : \A j \in 1..Len(rs) :
                  i < j => Rank(rs[i]) < Rank(rs[j])
           /\ {Rank(rs[i]) : i \in 1..Len(rs)} = Fired

\* a reputable item whose page fires content signals too
C17_Witness ==
    /\ spc = "done" /\ ~sresult.raised
    /\ Len(sresult.reasons) >= 3
    /\ sresult.reasons[1] = DomainReason
    /\ HasCorroborationReason

\* C14 as stated: two calls with the identical item and identical fetched page
\* content return identical results.
C14_SameItemAndPageSameResult ==
    spc = "done2" => sresult2 = sresult

\* ---------------------------------------------------------------------------
\* the pipeline: one list of items from scoring to validation
\* ---------------------------------------------------------------------------

\* the marker indices the report lists as out of range
FlaggedMarkers ==
    UNION {Range(preport.issues[j].list) :
              j \in {k \in 1..Len(preport.issues) :
                        preport.issues[k].kind = "out_of_range"}}

\* C11: the citation index of an item is its position at every stage:
\* items_scored has the length and order of items, synthesize numbers source i
\* of that list with i, and validate checks the markers of the text against
\* the same list, so a marker that passes the range check is the number of a
\* source, and that source is item i of the list.
C11_CitationIndexStable ==
    /\ ppc \in {"synthesize", "validate", "done"} =>
          /\ Len(pscored) = Len(pitems)
          /\ \A i \in 1..Len(pitems) :
                \A k \in DOMAIN pheap[pitems[i]] :
                    pheap[pscored[i]][k] = pheap[pitems[i]][k]
    /\ ppc \in {"validate", "done"} =>
          /\ Len(psources) = Len(pitems)
          /\ \A i \in 1..Len(psources) :
                /\ psources[i].index = i
                /\ psources[i].title = pheap[pitems[i]].title
                /\ psources[i].url = PyOr(pheap[pitems[i]].url, PyStr(<<>>))
    /\ (ppc = "done" /\ ~preport.raised) =>
          \A m \in MarkerValues(ptext) :
              IF m \in FlaggedMarkers
              THEN \A i \in 1..Len(psources) : psources[i].index # m
              ELSE /\ m \in 1..Len(pitems)
                   /\ psources[m].index = m
                   /\ psources[m].title = pheap[pitems[m]].title

\* two different items, the text citing the second and a source that is not there
C11_Witness ==
    /\ ppc = "done" /\ ~preport.raised
    /\ Len(pitems) = 2
    /\ pheap[pitems[1]] # pheap[pitems[2]]
    /\ ptext = <<"[", "2", "]", "[", "3", "]">>
    /\ FlaggedMarkers = {3}

\* C12: assess_items leaves every input item as it was, and each item it
\* returns is a new dict, different from every input item and from the other
\* returned items, that holds the fields of the input item unchanged and the
\* three reliability keys beside them.
C12_AssessItemsCopies ==
    [][(ppc = "assess" /\ ppc' # "assess") =>
          /\ \A o \in 1..Len(pheap) : pheap'[o] = pheap[o]
          /\ ppc' = "synthesize" =>
                /\ Len(pscored') = Len(pitems)
                /\ \A i \in 1..Len(pitems) :
                      /\ pscored'[i] \notin 1..Len(pheap)
                      /\ \A j \in 1..Len(pitems) :
                            j # i => pscored'[j] # pscored'[i]
                      /\ DOMAIN pheap'[pscored'[i]]
                            = DOMAIN pheap[pitems[i]] \cup ReliabilityKeys
                      /\ \A k \in DOMAIN pheap[pitems[i]] :
                            pheap'[pscored'[i]][k] = pheap[pitems[i]][k]
      ]_vars

\* two items scored, the first reputable: the copies carry the new keys, the
\* originals do not
C12_Witness ==
    /\ ppc = "synthesize"
    /\ Len(pitems) = 2
    /\ pheap[pscored[1]].reliability_score = 20
    /\ "reliability_score" \notin DOMAIN pheap[pitems[1]]

\* ---------------------------------------------------------------------------
\* safe_get
\* ---------------------------------------------------------------------------

\* the call cannot deliver the page
SafeGetFailure ==
    \/ ~clean_url(gurl.v).ok                      \* malformed url
    \/ grobots = "disallow"                        \* disallowed by robots.txt
    \/ ~gget.ok                                    \* network error
    \/ (~gallow /\ gget.status # 200)              \* status that is not 200
    \/ gget.size > SizeCap                         \* body above the size cap

\* C18: safe_get never raises and returns None for every failure (robots
\* disallow, with no request sent to the url; network error; a status other
\* than 200 unless allowed; malformed url; a body above the size cap whatever
\* the HEAD probe answered).
C18_SafeGetAbsentOnEveryFailure ==
    gpc = "done" =>
        /\ ~gresult.raised
        /\ SafeGetFailure => gresult.value = PyNone
        /\ grobots = "disallow" => gresult.sent = <<>>

\* ---------------------------------------------------------------------------
\* get_http_session under concurrency
\* ---------------------------------------------------------------------------

\* C19: under every interleaving one session is created at most, and every
\* call that has returned got that session, with the headers set and the
\* adapters mounted at the moment it was handed out.
C19_OneConfiguredSession ==
    /\ Len(csessions) <= 1
    /\ \A t \in Threads :
          cpc[t] = "done" =>
              /\ cret[t].session = 1
              /\ cret[t].headers
              /\ cret[t].adapters

\* ---------------------------------------------------------------------------
\* the per-host rate limit
\* ---------------------------------------------------------------------------

\* the requests sent so far: thread, method, host and time
Requests ==
    {[thread |-> t, method |-> "HEAD", host |-> host_of(rurl[t]), at |-> rsent[t].head] :
        t \in {u \in Threads : rsent[u].head >= 0}}
    \cup
    {[thread |-> t, method |-> "GET", host |-> host_of(rurl[t]), at |-> rsent[t].get] :
        t \in {u \in Threads : rsent[u].get >= 0}}

InRateLimit(t) == rpc[t] \in {"measure", "sleep", "stamp"}

\* C20: any two requests sent to one host, HEAD or GET, of one thread or of
\* two, are at least the minimum interval apart; and two callers for one host
\* are never inside rate_limit's locked section together.
C20_RequestsSpacedPerHost ==
    /\ \A a \in Requests : \A b \in Requests :
          (a # b /\ a.host = b.host) =>
              (a.at - b.at >= MinInterval \/ b.at - a.at >= MinInterval)
    /\ \A t \in Threads : \A u \in Threads :
          (t # u /\ InRateLimit(t) /\ InRateLimit(u)) =>
              host_of(rurl[t]) # host_of(rurl[u])

\* ---------------------------------------------------------------------------
\* run_pipeline, GUIDELINE_COMPARE
\* ---------------------------------------------------------------------------

\* the guideline results the branch ends with, and whether any web search answered
FinalGuides ==
    IF bworld.guides_exact # <<>> THEN bworld.guides_exact ELSE bworld.guides_broad

SomeWebAnswer == \E q \in WebQueries : bworld.web[q] # <<>>

IsNote(it) == it.org = PyStr(<<"NOTE">>)

TypeRank(it) ==
    CASE it.source_type = "guideline" -> 1
      [] it.source_type = "paper" -> 2
      [] it.source_type = "web" -> 3
      [] OTHER -> 0

\* C21: whatever the searches answer, the branch hands a list to
\* _enrich_and_summarize; the list is not empty, holds guidelines, then papers,
\* then web items, a guideline NOTE iff the final guideline results are empty
\* and a web NOTE iff the first and the three broadened web searches are empty.
C21_GuidelineCompareItems ==
    bpc = "done" =>
        /\ ~bresult.raised /\ bresult.passed
        /\ bresult.items # <<>>
        /\ \A i \in 1..Len(bresult.items) : \A j \in 1..Len(bresult.items) :
              i < j => TypeRank(bresult.items[i]) <= TypeRank(bresult.items[j])
        /\ (\E i \in 1..Len(bresult.items) :
               IsNote(bresult.items[i]) /\ bresult.items[i].source_type = "guideline")
           <=> FinalGuides = <<>>
        /\ (\E i \in 1..Len(bresult.items) :
               IsNote(bresult.items[i]) /\ bresult.items[i].source_type = "web")
           <=> ~SomeWebAnswer

\* the first broadened query that has an answer
FirstAnsweringAlt ==
    LET alts == broaden_query(BaseQuery)
        k == CHOOSE n \in 1..Len(alts) :
                 /\ bworld.web[alts[n]] # <<>>
                 /\ \A m \in 1..(n - 1) : bworld.web[alts[m]] = <<>>
    IN alts[k]

GuidesFromSecondChance == bworld.guides_exact = <<>> /\ bworld.guides_broad # <<>>

WebFromSecondChance ==
    /\ bworld.web[BaseQuery] = <<>>
    /\ \E n \in 1..Len(broaden_query(BaseQuery)) :
           bworld.web[broaden_query(BaseQuery)[n]] # <<>>

Carries(note) ==
    /\ ~bresult.raised /\ bresult.passed
    /\ \E i \in 1..Len(bresult.items) : bresult.items[i].snippet = PyStr(note)

\* C22: when the guidelines used come from the broader search the list handed
\* to _enrich_and_summarize carries fallback_note, and when the web hits used
\* come from a broadened query it carries the web_note naming that query.
C22_SecondChanceNoteCarried ==
    bpc = "done" =>
        /\ GuidesFromSecondChance => Carries(FallbackNote)
        /\ WebFromSecondChance => Carries(WebNote(FirstAnsweringAlt))

\* ---------------------------------------------------------------------------
\* validate: the shape of the report
\* ---------------------------------------------------------------------------

KindRank(issue) ==
    CASE issue.kind = "out_of_range" -> 1
      [] issue.kind = "no_citations" -> 2
      [] issue.kind = "stale" -> 3
      [] issue.kind = "preprint" -> 4
      [] OTHER -> 0

\* C23: a report holds four issues at most, one of each kind at most, in the
\* order out-of-range, no citations, stale, preprint, and never both the
\* out-of-range and the "no citations" issue.
C23_IssuesOrderedOnePerKind ==
    (vpc = "done" /\ ~vreport.raised) =>
        LET is == vreport.issues
        IN /\ Len(is) <= 4
           /\ \A i \in 1..Len(is) : KindRank(is[i]) \in 1..4
           /\ \A i \in 1..Len(is) : \A j \in 1..Len(is) :
                  i < j => KindRank(is[i]) < KindRank(is[j])
           /\ ~(\E i \in 1..Len(is) : is[i].kind = "out_of_range"
                /\ \E j \in 1..Len(is) : is[j].kind = "no_citations")

\* "[3]" against an old preprint: out-of-range, stale and preprint together
C23_Witness ==
    /\ vpc = "done" /\ ~vreport.raised
    /\ Len(vreport.issues) = 3
    /\ vreport.issues[1].kind = "out_of_range"
    /\ vreport.issues[2].kind = "stale"
    /\ vreport.issues[3].kind = "preprint"

\* ---------------------------------------------------------------------------
\* reliability_score: the score against the reasons
\* ---------------------------------------------------------------------------

\* the points the signal named by a reason stands for
ReasonPoints(r) ==
    CASE r.text = "reputable domain" -> DomainPoints
      [] r.text = "content credentials (C2PA)" -> C2paPoints
      [] r.text = "named author" -> AuthorPoints
      [] r.text = "timestamp present" -> DatePoints
      [] r.text = "citations/outbound links" -> r.bonus
      [] r.text = "independent corroboration" -> CorroborationPoints
      [] OTHER -> 0

RECURSIVE SumPoints(_)
SumPoints(reasons) ==
    IF reasons = <<>> THEN 0
    ELSE ReasonPoints(Head(reasons)) + SumPoints(Tail(reasons))

MaxScore == DomainPoints + C2paPoints + AuthorPoints + DatePoints + 10
            + CorroborationPoints

ScoreMatchesReasons(result) ==
    /\ result.score = SumPoints(result.reasons)
    /\ result.score <= MaxScore
    /\ MaxScore = 95
    /\ clamp(SumPoints(result.reasons)) = SumPoints(result.reasons)
    /\ (result.reasons = <<>> => result.score = 0)

\* C24: the returned score is the sum of the points of the signals listed in
\* reasons, so it is 95 at most, the clamp leaves it as it is, and no reason
\* means score 0.
C24_ScoreIsSumOfReasons ==
    /\ Scored => ScoreMatchesReasons(sresult)
    /\ (spc = "done2" /\ ~sresult2.raised) => ScoreMatchesReasons(sresult2)

\* every signal fires, with every hosted link reputable: 95
C24_Witness ==
    /\ Scored
    /\ Len(sresult.reasons) = 6
    /\ sresult.score = 95

====
